---- MODULE Spec2Model ----
(***************************************************************************)
(* The master side of the two-party elliptic-curve secret sharing of       *)
(* mpc-core/src/secret_share/master.rs, built on the Paillier cryptosystem.*)
(*                                                                         *)
(* The typestate SecretShareMasterCore<S> is the four struct fields p,     *)
(* state, enc_key and dec_key; `state` carries the tag of S and the        *)
(* private data of that state.  Every method consumes `self`: an action is *)
(* enabled only in the state whose impl block declares it.                 *)
(*                                                                         *)
(* The field prime and the Paillier primes are scaled down so that the     *)
(* arithmetic is exhaustively computable; every operation is computed as   *)
(* the code and its libraries (curv BigInt, kzen-paillier) compute it.     *)
(***************************************************************************)
EXTENDS Integers, Sequences, FiniteSets, TLC

\* The field prime `P` (NIST P-256 in the program), scaled down.
P == 7

\* The number of values of one coordinate byte (256 in the program), scaled
\* down; a coordinate is two bytes, big-endian.
ByteRadix == 4

\* Largest coordinate value of the points given to new().
MaxCoord == 8

\* Paillier key material Paillier::keypair() may return: pairs of primes.
KeyPairs == {<<5, 17>>, <<11, 13>>}

\* Randomness streams the encryptions of one round may draw.
RandStreams == {<<2, 3, 4, 6>>, <<3, 2, 7, 4>>}

----------------------------------------------------------------------------
(* curv::arithmetic                                                        *)

\* Rust integer division and remainder truncate toward zero.
TruncDiv(a, b) == IF a >= 0 THEN a \div b ELSE -((-a) \div b)

TruncRem(a, b) == a - b * TruncDiv(a, b)

\* Integer::mod_floor for a positive modulus.
ModFloor(a, m) == a % m

\* Modulo::mod_sub: (a mod m - b mod m + m) mod m
ModSub(a, b, m) == ModFloor(ModFloor(a, m) - ModFloor(b, m) + m, m)

\* Modulo::mod_mul: (a mod m * b mod m) mod m
ModMul(a, b, m) == ModFloor(ModFloor(a, m) * ModFloor(b, m), m)

\* Modulo::mod_pow: square-and-multiply, a^e mod m for e >= 0.
RECURSIVE ModPow(_, _, _)
ModPow(a, e, m) ==
    IF e = 0 THEN ModFloor(1, m)
    ELSE LET h == ModPow(a, e \div 2, m)
             s == ModFloor(h * h, m)
         IN  IF e % 2 = 1 THEN ModFloor(s * ModFloor(a, m), m) ELSE s

\* Modulo::mod_inv: the inverse of a modulo m (a is a unit where it is used).
ModInv(a, m) == CHOOSE x \in 0..(m - 1) : ModFloor(ModFloor(a, m) * x, m) = ModFloor(1, m)

\* Converter::from_bytes: big-endian bytes to a non-negative integer.
RECURSIVE FromBytes(_)
FromBytes(bytes) ==
    IF bytes = <<>> THEN 0
    ELSE FromBytes(SubSeq(bytes, 1, Len(bytes) - 1)) * ByteRadix + bytes[Len(bytes)]

----------------------------------------------------------------------------
(* paillier                                                                *)

\* Keypair::keys(): EncryptionKey {n, nn} and DecryptionKey {p, q}.
Keys(kp) ==
    [ek |-> [n |-> kp[1] * kp[2], nn |-> (kp[1] * kp[2]) * (kp[1] * kp[2])],
     dk |-> [p |-> kp[1], q |-> kp[2]]]

\* Paillier::encrypt with randomness r: (1 + m*n) * r^n mod n^2.
Encrypt(ek, m, r) ==
    LET rn == ModPow(r, ek.n, ek.nn)
        gm == TruncRem(m * ek.n + 1, ek.nn)
    IN  TruncRem(gm * rn, ek.nn)

\* l(u, n) = (u - 1) / n
L(u, n) == TruncDiv(u - 1, n)

\* h(p, p^2, n) = L_p((1 - n) mod p^2)^-1 mod p
H(p, pp, n) == ModInv(L(TruncRem(1 - n, pp), p), p)

\* crt_recombine(x1, x2, m1, m2, m1inv)
CrtRecombine(x1, x2, m1, m2, m1inv) ==
    LET diff == ModSub(x2, x1, m2)
        u    == TruncRem(diff * m1inv, m2)
    IN  x1 + u * m1

\* Paillier::decrypt: CRT decryption.  It is total: it returns a plaintext
\* for every ciphertext value and has no failure result.
Decrypt(dk, c) ==
    LET pp   == dk.p * dk.p
        qq   == dk.q * dk.q
        n    == dk.p * dk.q
        pinv == ModInv(dk.p, dk.q)
        hp   == H(dk.p, pp, n)
        hq   == H(dk.q, qq, n)
        cp   == TruncRem(c, pp)
        cq   == TruncRem(c, qq)
        mp   == TruncRem(L(ModPow(cp, dk.p - 1, pp), dk.p) * hp, dk.p)
        mq   == TruncRem(L(ModPow(cq, dk.q - 1, qq), dk.q) * hq, dk.q)
    IN  CrtRecombine(mp, mq, dk.p, dk.q, pinv)

\* Paillier::add and Paillier::mul, the homomorphic operations of the peer.
Add(ek, c1, c2) == TruncRem(c1 * c2, ek.nn)

Mul(ek, c, k) == ModPow(c, k, ek.nn)

----------------------------------------------------------------------------
(* super::slave: the peer.  S1, S2 and S3 are its messages; the masks are  *)
(* those the comments of master.rs name (A * M_A, T * M_T, B * M_B).       *)

\* The peer's point, its multiplicative masks m_* and additive masks n_*.
PeerParams ==
    {[x_p |-> 3, y_p |-> 2, m_a |-> 2, n_a |-> 5, m_t |-> 3, n_t |-> 9, m_b |-> 2, n_b |-> 4, r |-> 2],
     [x_p |-> 1, y_p |-> 1, m_a |-> 1, n_a |-> 8, m_t |-> 2, n_t |-> 0, m_b |-> 1, n_b |-> 11, r |-> 3]}

\* Round 1 of the peer: E(A * M_A + N_A) with A = (y_q - y_p)^2 and
\* E(T * M_T + N_T) with T = x_p - x_q, from the ciphertexts of M1.
PeerS1(m1, pp) ==
    LET ek  == m1.enc_key
        e_a == Add(ek, Add(ek, m1.e_y_q_pow_2, Mul(ek, m1.e_neg_2_y_q, pp.y_p)),
                   Encrypt(ek, ModMul(pp.y_p, pp.y_p, P), pp.r))
        e_t == Add(ek, m1.e_neg_x_q, Encrypt(ek, pp.x_p, pp.r))
    IN  [e_a_masked |-> Add(ek, Mul(ek, e_a, pp.m_a), Encrypt(ek, pp.n_a, pp.r)),
         n_a_mod_p  |-> ModFloor(pp.n_a, P),
         e_t_masked |-> Add(ek, Mul(ek, e_t, pp.m_t), Encrypt(ek, pp.n_t, pp.r)),
         n_t_mod_p  |-> ModFloor(pp.n_t, P)]

\* Round 2 of the peer: E(B * M_B + N_B) with B = (T * M_T)^(p-3) * M_T^2.
PeerS2(m1, m2, pp) ==
    LET ek  == m1.enc_key
        e_b == Mul(ek, m2.e_t_mod_pow, ModMul(pp.m_t, pp.m_t, P))
    IN  [e_b_masked |-> Add(ek, Mul(ek, e_b, pp.m_b), Encrypt(ek, pp.n_b, pp.r)),
         n_b_mod_p  |-> ModFloor(pp.n_b, P)]

\* Round 3 of the peer: E(A * B - x_q - x_p), the masks M_A * M_B removed.
PeerS3(m1, m3, pp) ==
    LET ek   == m1.enc_key
        e_ab == Mul(ek, m3.e_ab_masked, ModInv(ModMul(pp.m_a, pp.m_b, P), P))
    IN  [e_pms_masked |-> Add(ek, Add(ek, e_ab, m1.e_neg_x_q),
                              Encrypt(ek, ModSub(P, pp.x_p, P), pp.r))]

----------------------------------------------------------------------------
(* Inputs                                                                  *)

Byte == 0..(ByteRadix - 1)

\* The coordinate encodings: two bytes that encode at most MaxCoord.
Coord == {c \in {<<hi, lo>> : hi \in Byte, lo \in Byte} : FromBytes(c) <= MaxCoord}

\* EncodedPoint: identity (no coordinate), compressed (x only), uncompressed.
\* A coordinate is an Option: <<>> is None, <<c>> is Some(c).
Points ==
    {[x |-> <<>>, y |-> <<>>]}
    \cup {[x |-> <<cx>>, y |-> <<>>] : cx \in {<<0, 1>>, <<1, 2>>}}
    \cup {[x |-> <<cx>>, y |-> <<cy>>] : cx \in Coord, cy \in Coord}

\* Inbound round-2 messages that are not the peer's: well-formed ciphertexts
\* with scalars below, above and congruent to the plaintext, and values that
\* no encryption under ek produces (0 and n are not units modulo n^2).
OtherS1(ek) ==
    {[e_a_masked |-> Encrypt(ek, 10, 2), n_a_mod_p |-> 3,
      e_t_masked |-> Encrypt(ek, 2, 3),  n_t_mod_p |-> 9],
     [e_a_masked |-> Encrypt(ek, 4, 3),  n_a_mod_p |-> 12,
      e_t_masked |-> Encrypt(ek, 12, 4), n_t_mod_p |-> 5],
     [e_a_masked |-> 0,                  n_a_mod_p |-> 1,
      e_t_masked |-> Encrypt(ek, 4, 2),  n_t_mod_p |-> 1],
     [e_a_masked |-> Encrypt(ek, 6, 2),  n_a_mod_p |-> 2,
      e_t_masked |-> ek.n,               n_t_mod_p |-> 0]}

OtherS2(ek) ==
    {[e_b_masked |-> Encrypt(ek, 3, 4), n_b_mod_p |-> 8],
     [e_b_masked |-> Encrypt(ek, 9, 2), n_b_mod_p |-> 2],
     [e_b_masked |-> ek.n,              n_b_mod_p |-> 1]}

OtherS3(ek) ==
    {[e_pms_masked |-> Encrypt(ek, 20, 3)],
     [e_pms_masked |-> 0]}

----------------------------------------------------------------------------
(* SecretShareMasterCore<S>                                                *)

VARIABLES
    p,          \* SecretShareMasterCore.p
    state,      \* SecretShareMasterCore.state: the typestate and its data
    enc_key,    \* SecretShareMasterCore.enc_key
    dec_key,    \* SecretShareMasterCore.dec_key
    pc,         \* the caller: "start", "live", "panicked" or "done"
    failure,    \* the panic message, "" when there is none
    point,      \* the point given to new()
    out,        \* the messages returned so far: M1, M2, M3
    inb,        \* the messages consumed so far: S1, S2, S3
    rounds,     \* the rounds completed so far, in order
    ret,        \* the value secret() returned, NoValue before
    other,      \* a second session of the same caller, while it is not acted on
    focus       \* which of the two sessions the fields above belong to: 1 or 2

vars == <<p, state, enc_key, dec_key, pc, failure, point, out, inb, rounds, ret,
          other, focus>>

NoValue == -1

NoPoint == [x |-> <<>>, y |-> <<>>]

NoEncKey == [n |-> 0, nn |-> 0]

NoDecKey == [p |-> 0, q |-> 0]

NoState == [tag |-> "None"]

\* The session the caller is acting on, as one value.
Session ==
    [p |-> p, state |-> state, enc_key |-> enc_key, dec_key |-> dec_key,
     pc |-> pc, failure |-> failure, point |-> point,
     out |-> out, inb |-> inb, rounds |-> rounds, ret |-> ret]

\* A session that has not been constructed yet.
NoSession ==
    [p |-> 0, state |-> NoState, enc_key |-> NoEncKey, dec_key |-> NoDecKey,
     pc |-> "start", failure |-> "", point |-> NoPoint,
     out |-> <<>>, inb |-> <<>>, rounds |-> <<>>, ret |-> NoValue]

Init ==
    /\ p = 0
    /\ state = NoState
    /\ enc_key = NoEncKey
    /\ dec_key = NoDecKey
    /\ pc = "start"
    /\ failure = ""
    /\ point = NoPoint
    /\ out = <<>>
    /\ inb = <<>>
    /\ rounds = <<>>
    /\ ret = NoValue
    /\ other = NoSession
    /\ focus = 1

\* new() that defers the coordinate check: a missing coordinate reads as 0.
New_Deferred ==
    /\ pc = "start"
    /\ \E pt \in Points, kp \in KeyPairs :
        /\ point' = pt
        /\ pc' = "live"
        /\ failure' = ""
        /\ state' = [tag |-> "Initialized",
                     x |-> IF pt.x = <<>> THEN 0 ELSE FromBytes(pt.x[1]),
                     y |-> IF pt.y = <<>> THEN 0 ELSE FromBytes(pt.y[1])]
        /\ p' = P
        /\ enc_key' = Keys(kp).ek
        /\ dec_key' = Keys(kp).dk
    /\ UNCHANGED <<out, inb, rounds, ret, other, focus>>

\* SecretShareMasterCore<Initialized>::new.  The keypair is generated first;
\* expect() panics on a missing coordinate and no value is returned.
New ==
    /\ pc = "start"
    /\ \E pt \in Points, kp \in KeyPairs :
        /\ point' = pt
        /\ IF pt.x = <<>>
           THEN /\ pc' = "panicked"
                /\ failure' = "Invalid point"
                /\ UNCHANGED <<p, state, enc_key, dec_key>>
           ELSE IF pt.y = <<>>
           THEN /\ pc' = "panicked"
                /\ failure' = "Invalid point, or compressed"
                /\ UNCHANGED <<p, state, enc_key, dec_key>>
           ELSE /\ pc' = "live"
                /\ failure' = ""
                /\ state' = [tag |-> "Initialized",
                             x |-> FromBytes(pt.x[1]), y |-> FromBytes(pt.y[1])]
                /\ p' = P
                /\ enc_key' = Keys(kp).ek
                /\ dec_key' = Keys(kp).dk
    /\ UNCHANGED <<out, inb, rounds, ret, other, focus>>

\* M1 whose last ciphertext encrypts -y instead of -2y.
MakeM1_SingleY(rs) ==
    [tag         |-> "M1",
     enc_key     |-> enc_key,
     e_x_q       |-> Encrypt(enc_key, state.x, rs[1]),
     e_neg_x_q   |-> Encrypt(enc_key, ModSub(p, state.x, p), rs[2]),
     e_y_q_pow_2 |-> Encrypt(enc_key, ModPow(state.y, 2, p), rs[3]),
     e_neg_2_y_q |-> Encrypt(enc_key, ModSub(p, state.y, p), rs[4])]

\* The message M1 of SecretShareMasterCore<Initialized>::next.
MakeM1(rs) ==
    [tag         |-> "M1",
     enc_key     |-> enc_key,
     e_x_q       |-> Encrypt(enc_key, state.x, rs[1]),
     e_neg_x_q   |-> Encrypt(enc_key, ModSub(p, state.x, p), rs[2]),
     e_y_q_pow_2 |-> Encrypt(enc_key, ModPow(state.y, 2, p), rs[3]),
     e_neg_2_y_q |-> Encrypt(enc_key, ModSub(p, 2 * state.y, p), rs[4])]

\* Round 1 that leaves the session in Initialized: the round can be repeated.
Round1_Repeatable ==
    /\ pc = "live"
    /\ state.tag = "Initialized"
    /\ \E rs \in RandStreams : out' = Append(out, MakeM1(rs))
    /\ rounds' = Append(rounds, 1)
    /\ UNCHANGED <<p, state, enc_key, dec_key, pc, failure, point, inb, ret, other, focus>>

\* Round 1 that takes an inbound message like the later rounds.
Round1_WithInbound ==
    /\ pc = "live"
    /\ state.tag = "Initialized"
    /\ \E rs \in RandStreams : out' = Append(out, MakeM1(rs))
    /\ \E s \in OtherS1(enc_key) : inb' = Append(inb, s)
    /\ state' = [tag |-> "StepOne"]
    /\ rounds' = Append(rounds, 1)
    /\ UNCHANGED <<p, enc_key, dec_key, pc, failure, point, ret, other, focus>>

\* SecretShareMasterCore<Initialized>::next
Round1 ==
    /\ pc = "live"
    /\ state.tag = "Initialized"
    /\ \E rs \in RandStreams : out' = Append(out, MakeM1(rs))
    /\ state' = [tag |-> "StepOne"]
    /\ rounds' = Append(rounds, 1)
    /\ UNCHANGED <<p, enc_key, dec_key, pc, failure, point, inb, ret, other, focus>>

\* The subtraction of round 2 with its operands exchanged.
AMaskedModP_Swapped(s) == ModSub(s.n_a_mod_p, Decrypt(dec_key, s.e_a_masked), p)

\* Round 2 decrypting with a key slot shared by the caller's sessions.
AMaskedModP_SharedKey(s) ==
    ModSub(Decrypt(IF other.pc = "live" THEN other.dec_key ELSE dec_key, s.e_a_masked),
           s.n_a_mod_p, p)

\* A * M_A mod p of SecretShareMasterCore<StepOne>::next
AMaskedModP(s) == ModSub(Decrypt(dec_key, s.e_a_masked), s.n_a_mod_p, p)

\* T * M_T mod p of SecretShareMasterCore<StepOne>::next
TMaskedModP(s) == ModSub(Decrypt(dec_key, s.e_t_masked), s.n_t_mod_p, p)

\* The Fermat inverse of the value instead of the inverse of its square.
TModPow_Inverse(s) == ModPow(TMaskedModP(s), p - 2, p)

\* (T * M_T)^(p-3) mod p of SecretShareMasterCore<StepOne>::next
TModPow(s) == ModPow(TMaskedModP(s), p - 3, p)

\* M2 carrying the powered value itself instead of its encryption.
MakeM2_Plain(s, rs) == [tag |-> "M2", e_t_mod_pow |-> TModPow(s)]

\* The message M2 of SecretShareMasterCore<StepOne>::next.
MakeM2(s, rs) == [tag |-> "M2", e_t_mod_pow |-> Encrypt(enc_key, TModPow(s), rs[1])]

\* The inbound messages offered to round 2.
S1Inputs == {PeerS1(out[1], pp) : pp \in PeerParams} \cup OtherS1(enc_key)

\* Round 2 that validates its ciphertexts and fails on one that is not a
\* unit modulo n^2.
Round2_Checked ==
    /\ pc = "live"
    /\ state.tag = "StepOne"
    /\ \E s \in S1Inputs, rs \in RandStreams :
        /\ inb' = Append(inb, s)
        /\ IF \E c \in {s.e_a_masked, s.e_t_masked} :
                  c <= 0 \/ c >= enc_key.nn \/ c % dec_key.p = 0 \/ c % dec_key.q = 0
           THEN /\ pc' = "failed"
                /\ failure' = "DecryptionError"
                /\ UNCHANGED <<out, state, rounds>>
           ELSE /\ out' = Append(out, MakeM2(s, rs))
                /\ state' = [tag |-> "StepTwo", a_masked_mod_p |-> AMaskedModP(s)]
                /\ rounds' = Append(rounds, 2)
                /\ UNCHANGED <<pc, failure>>
    /\ UNCHANGED <<p, enc_key, dec_key, point, ret, other, focus>>

\* Round 2 that keeps t_masked_mod_p in the next state.
Round2_KeepsT ==
    /\ pc = "live"
    /\ state.tag = "StepOne"
    /\ \E s \in S1Inputs, rs \in RandStreams :
        /\ out' = Append(out, MakeM2(s, rs))
        /\ state' = [tag |-> "StepTwo", a_masked_mod_p |-> AMaskedModP(s),
                     t_masked_mod_p |-> TMaskedModP(s)]
        /\ inb' = Append(inb, s)
    /\ rounds' = Append(rounds, 2)
    /\ UNCHANGED <<p, enc_key, dec_key, pc, failure, point, ret, other, focus>>

\* Round 2 that fails when the value to invert is 0.
Round2_NoInverse ==
    /\ pc = "live"
    /\ state.tag = "StepOne"
    /\ \E s \in S1Inputs, rs \in RandStreams :
        /\ inb' = Append(inb, s)
        /\ IF TMaskedModP(s) = 0
           THEN /\ pc' = "failed"
                /\ failure' = "NoInverse"
                /\ UNCHANGED <<out, state, rounds>>
           ELSE /\ out' = Append(out, MakeM2(s, rs))
                /\ state' = [tag |-> "StepTwo", a_masked_mod_p |-> AMaskedModP(s)]
                /\ rounds' = Append(rounds, 2)
                /\ UNCHANGED <<pc, failure>>
    /\ UNCHANGED <<p, enc_key, dec_key, point, ret, other, focus>>

\* SecretShareMasterCore<StepOne>::next
Round2 ==
    /\ pc = "live"
    /\ state.tag = "StepOne"
    /\ \E s \in S1Inputs, rs \in RandStreams :
        /\ out' = Append(out, MakeM2(s, rs))
        /\ state' = [tag |-> "StepTwo", a_masked_mod_p |-> AMaskedModP(s)]
        /\ inb' = Append(inb, s)
    /\ rounds' = Append(rounds, 2)
    /\ UNCHANGED <<p, enc_key, dec_key, pc, failure, point, ret, other, focus>>

\* Round 3 without the correction scalar.
BMaskedModP_NoCorrection(s) == ModFloor(Decrypt(dec_key, s.e_b_masked), p)

\* Round 3 with the remainder of the plain difference, which keeps its sign.
BMaskedModP_Truncating(s) == TruncRem(Decrypt(dec_key, s.e_b_masked) - s.n_b_mod_p, p)

\* B * M_B mod p of SecretShareMasterCore<StepTwo>::next
BMaskedModP(s) == ModSub(Decrypt(dec_key, s.e_b_masked), s.n_b_mod_p, p)

\* M3 whose product squares b_masked_mod_p and ignores the retained value.
MakeM3_Squared(s, rs) ==
    [tag |-> "M3",
     e_ab_masked |-> Encrypt(enc_key, ModMul(BMaskedModP(s), BMaskedModP(s), p), rs[1])]

\* The message M3 of SecretShareMasterCore<StepTwo>::next.
MakeM3(s, rs) ==
    [tag |-> "M3",
     e_ab_masked |-> Encrypt(enc_key, ModMul(BMaskedModP(s), state.a_masked_mod_p, p), rs[1])]

\* The inbound messages offered to round 3: the answer of the peer whose
\* round-2 message was consumed, and the others.
S2Inputs ==
    {PeerS2(out[1], out[2], pp) : pp \in {q \in PeerParams : inb[1] = PeerS1(out[1], q)}}
    \cup OtherS2(enc_key)

\* Round 3 that builds the next state around a newly generated keypair.
Round3_Rekeyed ==
    /\ pc = "live"
    /\ state.tag = "StepTwo"
    /\ \E s \in S2Inputs, rs \in RandStreams :
        /\ out' = Append(out, MakeM3(s, rs))
        /\ inb' = Append(inb, s)
    /\ \E kp \in KeyPairs :
        /\ enc_key' = Keys(kp).ek
        /\ dec_key' = Keys(kp).dk
    /\ state' = [tag |-> "StepThree"]
    /\ rounds' = Append(rounds, 3)
    /\ UNCHANGED <<p, pc, failure, point, ret, other, focus>>

\* SecretShareMasterCore<StepTwo>::next
Round3 ==
    /\ pc = "live"
    /\ state.tag = "StepTwo"
    /\ \E s \in S2Inputs, rs \in RandStreams :
        /\ out' = Append(out, MakeM3(s, rs))
        /\ inb' = Append(inb, s)
    /\ state' = [tag |-> "StepThree"]
    /\ rounds' = Append(rounds, 3)
    /\ UNCHANGED <<p, enc_key, dec_key, pc, failure, point, ret, other, focus>>

\* The decrypted value without the reduction modulo p.
PmsModP_Unreduced(s) == Decrypt(dec_key, s.e_pms_masked)

\* The additive inverse of the decrypted value.
PmsModP_Negated(s) == ModSub(p, Decrypt(dec_key, s.e_pms_masked), p)

\* The secret of SecretShareMasterCore<StepThree>::next: pms_masked % p
PmsModP(s) == TruncRem(Decrypt(dec_key, s.e_pms_masked), p)

\* The inbound messages offered to round 4: the answer of the peer whose
\* round-2 and round-3 messages were consumed, and the others.
S3Inputs ==
    {PeerS3(out[1], out[3], pp) :
        pp \in {q \in PeerParams : /\ inb[1] = PeerS1(out[1], q)
                                   /\ inb[2] = PeerS2(out[1], out[2], q)}}
    \cup OtherS3(enc_key)

\* Round 4 that also returns a message.
Round4_Emitting ==
    /\ pc = "live"
    /\ state.tag = "StepThree"
    /\ \E s \in S3Inputs :
        /\ state' = [tag |-> "Complete", secret |-> PmsModP(s)]
        /\ inb' = Append(inb, s)
        /\ out' = Append(out, [tag |-> "M4", e_done |-> Encrypt(enc_key, 0, 2)])
    /\ rounds' = Append(rounds, 4)
    /\ UNCHANGED <<p, enc_key, dec_key, pc, failure, point, ret, other, focus>>

\* SecretShareMasterCore<StepThree>::next
Round4 ==
    /\ pc = "live"
    /\ state.tag = "StepThree"
    /\ \E s \in S3Inputs :
        /\ state' = [tag |-> "Complete", secret |-> PmsModP(s)]
        /\ inb' = Append(inb, s)
    /\ rounds' = Append(rounds, 4)
    /\ UNCHANGED <<p, enc_key, dec_key, pc, failure, point, out, ret, other, focus>>

\* secret() that borrows the session instead of consuming it.
Secret_Borrowing ==
    /\ pc = "live"
    /\ state.tag = "Complete"
    /\ ret' = state.secret
    /\ UNCHANGED <<p, state, enc_key, dec_key, pc, failure, point, out, inb, rounds, other, focus>>

\* SecretShareMasterCore<Complete>::secret: consumes the session.
Secret ==
    /\ pc = "live"
    /\ state.tag = "Complete"
    /\ ret' = state.secret
    /\ pc' = "done"
    /\ p' = 0
    /\ state' = NoState
    /\ enc_key' = NoEncKey
    /\ dec_key' = NoDecKey
    /\ UNCHANGED <<failure, point, out, inb, rounds, other, focus>>

Next == New \/ Round1 \/ Round2 \/ Round3 \/ Round4 \/ Secret

Spec == Init /\ [][Next]_vars

----------------------------------------------------------------------------
(* Two sessions of one caller                                              *)

\* The caller turns to its other session: the two values change places and
\* neither changes.
Switch ==
    /\ other' = Session
    /\ p' = other.p
    /\ state' = other.state
    /\ enc_key' = other.enc_key
    /\ dec_key' = other.dec_key
    /\ pc' = other.pc
    /\ failure' = other.failure
    /\ point' = other.point
    /\ out' = other.out
    /\ inb' = other.inb
    /\ rounds' = other.rounds
    /\ ret' = other.ret
    /\ focus' = 3 - focus

\* The points, the peer and the inbound messages given to a pair of sessions.
PairPoints ==
    {[x |-> <<>>, y |-> <<>>],
     [x |-> << <<0, 2>> >>, y |-> << <<1, 1>> >>],
     [x |-> << <<1, 2>> >>, y |-> << <<0, 3>> >>]}

PairPeers == {pp \in PeerParams : pp.x_p = 3}

PairS1(m1) ==
    {PeerS1(m1, pp) : pp \in PairPeers}
    \cup {s \in OtherS1(m1.enc_key) : s.n_a_mod_p >= P}

PairS2(m1, m2) ==
    {PeerS2(m1, m2, pp) : pp \in PairPeers}
    \cup {s \in OtherS2(m1.enc_key) : s.n_b_mod_p >= P}

PairS3(m1, m3) ==
    {PeerS3(m1, m3, pp) : pp \in PairPeers}
    \cup {s \in OtherS3(m1.enc_key) : s.e_pms_masked # 0}

\* The step is one the pair is given: the point and the consumed message are
\* among those above and the emitted message draws the first random stream.
PairStep ==
    /\ point' \in PairPoints
    /\ Len(out') > Len(out) =>
          LET c == CHOOSE f \in {out'[Len(out')][n] :
                                    n \in DOMAIN out'[Len(out')]
                                          \cap {"e_x_q", "e_t_mod_pow", "e_ab_masked"}} : TRUE
          IN  c = Encrypt(enc_key', Decrypt(dec_key', c), 2)
    /\ Len(inb') > Len(inb) =>
          inb'[Len(inb')] \in
              CASE Len(inb') = 1 -> PairS1(out'[1])
                [] Len(inb') = 2 -> PairS2(out'[1], out'[2])
                [] OTHER         -> PairS3(out'[1], out'[3])

PairNew == New /\ PairStep

PairRound1 == Round1 /\ PairStep

PairRound2 == Round2 /\ PairStep

PairRound3 == Round3 /\ PairStep

PairRound4 == Round4 /\ PairStep

PairSecret == Secret /\ PairStep

NextPair ==
    \/ PairNew \/ PairRound1 \/ PairRound2 \/ PairRound3 \/ PairRound4 \/ PairSecret
    \/ Switch

SpecPair == Init /\ [][NextPair]_vars

----------------------------------------------------------------------------
(* Properties                                                              *)

\* The typestate the session is in after k rounds.
TagAfter(k) ==
    CASE k = 0 -> "Initialized"
      [] k = 1 -> "StepOne"
      [] k = 2 -> "StepTwo"
      [] k = 3 -> "StepThree"
      [] OTHER -> "Complete"

IsPrefix(s, t) == Len(s) <= Len(t) /\ \A i \in 1..Len(s) : s[i] = t[i]

MsgTag(k) == CASE k = 1 -> "M1" [] k = 2 -> "M2" [] OTHER -> "M3"

\* C1: the rounds of a session complete in the order 1, 2, 3, 4, each at most
\* once; the k-th outbound message exists only when round k has completed;
\* the secret is extracted only after all four rounds; no operation ends in
\* a SequenceError.
C1_RoundOrder ==
    /\ IsPrefix(rounds, <<1, 2, 3, 4>>)
    /\ pc = "live" => state.tag = TagAfter(Len(rounds))
    /\ Len(out) = (IF Len(rounds) <= 3 THEN Len(rounds) ELSE 3)
    /\ \A k \in 1..Len(out) : out[k].tag = MsgTag(k)
    /\ Len(inb) = (IF rounds = <<>> THEN 0 ELSE Len(rounds) - 1)
    /\ ret # NoValue => rounds = <<1, 2, 3, 4>>
    /\ pc = "done" <=> ret # NoValue
    /\ failure # "SequenceError"

C1_Witness == ret # NoValue /\ rounds = <<1, 2, 3, 4>> /\ Len(out) = 3

----------------------------------------------------------------------------
\* The coordinates of the point given to new(), as numbers.
CoordValue(c) == c[1] * ByteRadix + c[2]

HasCoords == point.x # <<>> /\ point.y # <<>>

Xq == CoordValue(point.x[1])

Yq == CoordValue(point.y[1])

\* The random values an encryption may draw.
Rands == UNION {{rs[i] : i \in 1..4} : rs \in RandStreams}

\* c is the encryption of m under ek with one of the random values.
EncryptionOf(ek, c, m) == \E r \in Rands : c = Encrypt(ek, m, r)

RECURSIVE Gcd(_, _)
Gcd(a, b) == IF b = 0 THEN a ELSE Gcd(b, a % b)

\* The values encryption under ek produces: the units modulo n^2.
IsCiphertext(ek, c) == c \in 1..(ek.nn - 1) /\ Gcd(c, ek.n) = 1

\* The ciphertext fields of an outbound message.
CipherFields(m) ==
    CASE m.tag = "M1" -> {m.e_x_q, m.e_neg_x_q, m.e_y_q_pow_2, m.e_neg_2_y_q}
      [] m.tag = "M2" -> {m.e_t_mod_pow}
      [] OTHER        -> {m.e_ab_masked}

\* The demasked intermediates of rounds 2 and 3, from the consumed messages.
DemaskedA == (Decrypt(dec_key, inb[1].e_a_masked) - inb[1].n_a_mod_p) % P

DemaskedT == (Decrypt(dec_key, inb[1].e_t_masked) - inb[1].n_t_mod_p) % P

DemaskedB == (Decrypt(dec_key, inb[2].e_b_masked) - inb[2].n_b_mod_p) % P

\* The plaintexts the session must keep to itself.
PrivateValues ==
    {Xq, Yq, dec_key.p, dec_key.q}
    \cup (IF Len(inb) >= 1 THEN {DemaskedA, DemaskedT, (DemaskedT ^ (P - 3)) % P} ELSE {})
    \cup (IF Len(inb) >= 2 THEN {DemaskedB, (DemaskedB * DemaskedA) % P} ELSE {})
    \cup (IF state.tag = "Complete" THEN {state.secret} ELSE {})

\* C2: in a live session, M1 carries the session's encryption key and
\* nothing else in the clear; no ciphertext field of any outbound message is
\* one of the session's private plaintexts or a prime of the decryption key;
\* and every ciphertext field of the message the last round emitted is an
\* encryption, under the session's key, of a residue or of the coordinate x.
C2_NoPlaintextLeak ==
    pc = "live" =>
      LET private == PrivateValues IN
        \A k \in 1..Len(out) :
            /\ out[k].tag = "M1" =>
                  /\ out[k].enc_key = enc_key
                  /\ DOMAIN out[k] = {"tag", "enc_key", "e_x_q", "e_neg_x_q",
                                      "e_y_q_pow_2", "e_neg_2_y_q"}
            /\ out[k].tag = "M2" => DOMAIN out[k] = {"tag", "e_t_mod_pow"}
            /\ out[k].tag = "M3" => DOMAIN out[k] = {"tag", "e_ab_masked"}
            /\ \A c \in CipherFields(out[k]) : c \notin private
            /\ state.tag = TagAfter(k) =>
                  \A c \in CipherFields(out[k]) :
                      LET d == Decrypt(dec_key, c)
                      IN  /\ EncryptionOf(enc_key, c, d)
                          /\ d \in (0..(P - 1)) \cup {Xq}

C2_Witness == pc = "live" /\ Len(out) = 3 /\ state.tag = "Complete"

\* C3 as amended: a point that lacks a coordinate makes new() panic, with
\* "Invalid point" for a missing x and "Invalid point, or compressed" for a
\* missing y; no session exists afterwards and nothing was emitted.  A point
\* with both coordinates never panics.
C3_InvalidPointPanics ==
    pc # "start" =>
        /\ point.x = <<>> => pc = "panicked" /\ failure = "Invalid point"
        /\ (point.x # <<>> /\ point.y = <<>>) =>
              pc = "panicked" /\ failure = "Invalid point, or compressed"
        /\ HasCoords => pc # "panicked" /\ failure = ""
        /\ pc = "panicked" =>
              /\ state = NoState /\ enc_key = NoEncKey /\ dec_key = NoDecKey
              /\ out = <<>> /\ rounds = <<>> /\ ret = NoValue

C3_Witness == pc = "panicked" /\ point.x # <<>> /\ point.y = <<>>

\* C3 as stated: the failure is an InvalidPoint error value returned to the
\* caller.
C3_ReturnsInvalidPoint ==
    (pc # "start" /\ ~HasCoords) =>
        /\ pc = "failed"
        /\ failure = "InvalidPoint"
        /\ state = NoState

\* The consumed round-2 message holds a value no encryption produces.
CorruptS1 ==
    /\ Len(inb) >= 1
    /\ \E c \in {inb[1].e_a_masked, inb[1].e_t_masked} :
          ~IsCiphertext(out[1].enc_key, c)

\* C4 as amended: round 2 does not validate its ciphertexts.  Given a value
\* that no encryption under the session's key produces, it does not fail:
\* it emits M2, an encryption of a residue, and the session is in StepTwo
\* with a residue as a_masked_mod_p, from where it runs on to a secret.
C4_CorruptCiphertextAccepted ==
    CorruptS1 =>
        /\ failure = ""
        /\ pc \in {"live", "done"}
        /\ Len(rounds) >= 2
        /\ Len(out) >= 2 /\ out[2].tag = "M2"
        /\ state.tag = "StepTwo" =>
              /\ state.a_masked_mod_p \in 0..(P - 1)
              /\ Decrypt(dec_key, out[2].e_t_mod_pow) \in 0..(P - 1)

C4_Witness == CorruptS1 /\ ret # NoValue

\* C4 as stated: such a message makes round 2 fail with DecryptionError, no
\* M2 is emitted, StepTwo is never reached and no secret is extracted.
C4_DecryptionError ==
    CorruptS1 =>
        /\ failure = "DecryptionError"
        /\ Len(out) <= 1
        /\ state.tag \notin {"StepTwo", "StepThree", "Complete"}
        /\ ret = NoValue

----------------------------------------------------------------------------
\* The peer whose three messages the session consumed.
PeerOf(pp) ==
    /\ Len(inb) = 3
    /\ inb[1] = PeerS1(out[1], pp)
    /\ inb[2] = PeerS2(out[1], out[2], pp)
    /\ inb[3] = PeerS3(out[1], out[3], pp)

\* The x coordinate of the sum of (xq, yq) and (xp, yp) by the chord rule:
\* lambda^2 - xp - xq with lambda * (xq - xp) = yq - yp, modulo P.
ChordX(xq, yq, xp, yp) ==
    LET lambda == CHOOSE l \in 0..(P - 1) : (l * (xq - xp)) % P = (yq - yp) % P
    IN  (lambda * lambda - xp - xq) % P

\* C5: when the three inbound messages are those of the peer for a point
\* (x_p, y_p) with x_p distinct from x modulo P, the secret extracted from
\* Complete is the chord-rule combination of the two points modulo P.
C5_EndToEnd ==
    pc = "done" =>
        \A pp \in PeerParams :
            (PeerOf(pp) /\ (Xq - pp.x_p) % P # 0) =>
                ret = ChordX(Xq, Yq, pp.x_p, pp.y_p)

C5_Witness ==
    \E pp \in PeerParams :
        /\ PeerOf(pp) /\ (Xq - pp.x_p) % P # 0 /\ (Yq - pp.y_p) % P # 0
        /\ pc = "done" /\ ret = ChordX(Xq, Yq, pp.x_p, pp.y_p) /\ ret # 0

\* C6: the secret held in Complete, and the value secret() returns, is an
\* integer in [0, P), whatever the inbound messages were.
C6_SecretRange ==
    /\ state.tag = "Complete" => state.secret \in 0..(P - 1)
    /\ pc = "done" => ret \in 0..(P - 1)

\* A session whose round-4 ciphertext decrypts to a value of P or more.
C6_Witness ==
    /\ pc = "done" /\ ret \in 0..(P - 1)
    /\ \E kp \in KeyPairs :
          /\ out[1].enc_key = Keys(kp).ek
          /\ Decrypt(Keys(kp).dk, inb[3].e_pms_masked) >= P

\* C7: every step that leaves the session live leaves the prime, the
\* encryption key and the decryption key as they were; in a live session the
\* prime is P and the two keys are the halves of one generated keypair.
C7_KeysAndPrimeFixed ==
    [][(pc = "live" /\ pc' = "live") =>
          /\ p' = p /\ enc_key' = enc_key /\ dec_key' = dec_key
          /\ p = P
          /\ \E kp \in KeyPairs : enc_key = Keys(kp).ek /\ dec_key = Keys(kp).dk]_vars

C7_Witness == pc = "live" /\ state.tag = "Complete" /\ p = P /\ dec_key # NoDecKey

\* C8: for coordinates x, y in [0, P), M1 carries the session's encryption
\* key and four ciphertexts under it whose plaintexts are x, (-x) mod P,
\* y^2 mod P and (-2y) mod P, each in [0, P).
C8_RoundOnePlaintexts ==
    (pc = "live" /\ Len(out) >= 1 /\ Xq < P /\ Yq < P) =>
        LET m1   == out[1]
            pt_1 == Decrypt(dec_key, m1.e_x_q)
            pt_2 == Decrypt(dec_key, m1.e_neg_x_q)
            pt_3 == Decrypt(dec_key, m1.e_y_q_pow_2)
            pt_4 == Decrypt(dec_key, m1.e_neg_2_y_q)
        IN  /\ m1.enc_key = enc_key
            /\ \A c \in CipherFields(m1) : IsCiphertext(enc_key, c)
            /\ pt_1 = Xq
            /\ pt_2 = (0 - Xq) % P
            /\ pt_3 = (Yq * Yq) % P
            /\ pt_4 = (0 - 2 * Yq) % P
            /\ {pt_1, pt_2, pt_3, pt_4} \subseteq 0..(P - 1)

\* x = 0 and 2y >= P.
C8_Witness == pc = "live" /\ state.tag = "StepOne" /\ Xq = 0 /\ Yq < P /\ 2 * Yq >= P

\* C9: round 2 retains a_masked_mod_p = (A' - n_a) mod P in StepTwo and emits
\* M2, a single ciphertext whose plaintext is ((T' - n_t) mod P)^(P-3) mod P,
\* where A' and T' are the decryptions of the two inbound ciphertexts.
C9_RoundTwo ==
    (pc = "live" /\ state.tag = "StepTwo") =>
        LET s1 == inb[1]
            a  == Decrypt(dec_key, s1.e_a_masked)
            t  == Decrypt(dec_key, s1.e_t_masked)
        IN  /\ state.a_masked_mod_p = (a - s1.n_a_mod_p) % P
            /\ DOMAIN state = {"tag", "a_masked_mod_p"}
            /\ DOMAIN out[2] = {"tag", "e_t_mod_pow"}
            /\ IsCiphertext(enc_key, out[2].e_t_mod_pow)
            /\ Decrypt(dec_key, out[2].e_t_mod_pow)
                  = (((t - s1.n_t_mod_p) % P) ^ (P - 3)) % P

\* The correction scalar exceeds the decrypted value.
C9_Witness ==
    /\ pc = "live" /\ state.tag = "StepTwo"
    /\ Decrypt(dec_key, inb[1].e_a_masked) < inb[1].n_a_mod_p
    /\ state.a_masked_mod_p # 0
    /\ Decrypt(dec_key, out[2].e_t_mod_pow) > 1

\* C10: when the demasked t of round 2 is not 0, the plaintext of M2 times
\* t^2 is 1 modulo P.
C10_FermatInverse ==
    (pc = "live" /\ state.tag = "StepTwo" /\ DemaskedT # 0) =>
        (Decrypt(dec_key, out[2].e_t_mod_pow) * DemaskedT * DemaskedT) % P = 1

C10_Witness ==
    /\ pc = "live" /\ state.tag = "StepTwo" /\ DemaskedT = 3
    /\ (Decrypt(dec_key, out[2].e_t_mod_pow) * 9) % P = 1

----------------------------------------------------------------------------
\* C11: the step of round 3 emits M3, a single ciphertext whose plaintext is
\* (((B' - n_b) mod P) * a) mod P, where B' is the decryption of the inbound
\* ciphertext and a is the a_masked_mod_p the session held in StepTwo, which
\* is the value round 2 computed from its own inbound message.
C11_RoundThree ==
    [][(state.tag = "StepTwo" /\ state'.tag = "StepThree") =>
          LET s2 == inb'[2]
              b  == Decrypt(dec_key, s2.e_b_masked)
          IN  /\ Len(out') = 3 /\ SubSeq(out', 1, 2) = out
              /\ DOMAIN out'[3] = {"tag", "e_ab_masked"}
              /\ IsCiphertext(enc_key, out'[3].e_ab_masked)
              /\ state.a_masked_mod_p = DemaskedA
              /\ Decrypt(dec_key, out'[3].e_ab_masked)
                    = (((b - s2.n_b_mod_p) % P) * state.a_masked_mod_p) % P]_vars

\* Round 3 has run on factors that are neither 0 nor 1 and differ.
C11_Witness ==
    /\ pc = "live" /\ state.tag = "StepThree"
    /\ DemaskedA > 1 /\ DemaskedB > 1 /\ DemaskedA # DemaskedB
    /\ Decrypt(dec_key, out[3].e_ab_masked) = (DemaskedA * DemaskedB) % P

\* C12: the step of round 4 stores (decryption of the inbound ciphertext)
\* mod P as the secret and emits nothing; the step of secret() returns the
\* stored value unchanged and emits nothing.
C12_RoundFour ==
    [][/\ (state.tag = "StepThree" /\ state'.tag = "Complete") =>
              /\ state'.secret = Decrypt(dec_key, inb'[3].e_pms_masked) % P
              /\ DOMAIN state' = {"tag", "secret"}
              /\ out' = out
              /\ ret' = NoValue
       /\ (state.tag = "Complete" /\ ret' # ret) =>
              /\ ret' = state.secret
              /\ out' = out]_vars

\* The decrypted value was P or more and its residue was returned.
C12_Witness ==
    /\ pc = "done" /\ ret = 6
    /\ \E kp \in KeyPairs :
          /\ out[1].enc_key = Keys(kp).ek
          /\ Decrypt(Keys(kp).dk, inb[3].e_pms_masked) = 20

----------------------------------------------------------------------------
\* C14 as amended: rounds 1, 2 and 3 each emit exactly one outbound message
\* and round 4 emits none; rounds 2, 3 and 4 each consume exactly one inbound
\* message and round 1 consumes none; no other step emits or consumes.
C14_RoundIO ==
    [][LET k == Len(rounds') IN
       IF rounds' # rounds
       THEN /\ IF k = 1 THEN inb' = inb
               ELSE Len(inb') = Len(inb) + 1 /\ SubSeq(inb', 1, Len(inb)) = inb
            /\ IF k = 4 THEN out' = out /\ state'.tag = "Complete"
               ELSE Len(out') = Len(out) + 1 /\ SubSeq(out', 1, Len(out)) = out
       ELSE inb' = inb /\ out' = out]_vars

C14_Witness ==
    /\ pc = "live" /\ rounds = <<1, 2, 3, 4>>
    /\ Len(inb) = 3 /\ Len(out) = 3

\* C14 as stated: every round consumes exactly one inbound message, and
\* every round but the last emits exactly one outbound message.
C14_EveryRoundConsumes ==
    [][rounds' # rounds =>
          /\ Len(inb') = Len(inb) + 1
          /\ IF Len(rounds') = 4 THEN out' = out
             ELSE Len(out') = Len(out) + 1]_vars

\* C15: the step that returns the secret leaves no session: the state and
\* both keys are gone; and no step is taken once a secret has been returned.
C15_OneShot ==
    [][/\ ret = NoValue
       /\ ret' # NoValue =>
              /\ pc' = "done"
              /\ state' = NoState
              /\ dec_key' = NoDecKey
              /\ enc_key' = NoEncKey]_vars

C15_Witness == ret # NoValue /\ pc = "done" /\ dec_key = NoDecKey /\ state = NoState

\* The private fields of each typestate.
StateFields(tag) ==
    CASE tag = "Initialized" -> {"tag", "x", "y"}
      [] tag = "StepTwo"     -> {"tag", "a_masked_mod_p"}
      [] tag = "Complete"    -> {"tag", "secret"}
      [] OTHER               -> {"tag"}

\* C17: a live session is in exactly one of the five states and holds the
\* fields of that state only: x and y in Initialized, a_masked_mod_p (the
\* demasked A, not the demasked T or its power) in StepTwo, the secret in
\* Complete, and nothing in StepOne and StepThree; without a live session
\* no state is held.
C17_PerStateData ==
    /\ pc = "live" =>
          /\ state.tag \in {"Initialized", "StepOne", "StepTwo", "StepThree", "Complete"}
          /\ DOMAIN state = StateFields(state.tag)
          /\ state.tag = "Initialized" => state.x = Xq /\ state.y = Yq
          /\ state.tag = "StepTwo" => state.a_masked_mod_p = DemaskedA
    /\ pc # "live" => state = NoState

C17_Witness ==
    /\ pc = "live" /\ state.tag = "StepTwo"
    /\ DemaskedT # DemaskedA /\ (DemaskedT ^ (P - 3)) % P # DemaskedA
    /\ DOMAIN state = {"tag", "a_masked_mod_p"}

\* C18: M1 is emitted by a step that consumes nothing; for k = 1, 2 the step
\* that consumes the k-th inbound message finds M_k already emitted and emits
\* M_(k+1); the step that consumes the third finds M3 emitted and emits
\* nothing; the secret is returned only after three outbound and three
\* inbound messages, by a step that exchanges none.
C18_MessageOrder ==
    [][/\ Len(out') = Len(out) + 1 =>
              /\ out'[Len(out')].tag = MsgTag(Len(out'))
              /\ IF Len(out) = 0 THEN inb' = inb
                 ELSE Len(inb) = Len(out) - 1 /\ Len(inb') = Len(out)
       /\ Len(inb') = Len(inb) + 1 => Len(out) = Len(inb) + 1
       /\ Len(out') \in {Len(out), Len(out) + 1}
       /\ Len(inb') \in {Len(inb), Len(inb) + 1}
       /\ state'.tag = "Complete" => Len(out') = 3 /\ Len(inb') = 3
       /\ ret' # ret =>
              /\ Len(out) = 3 /\ Len(inb) = 3
              /\ out' = out /\ inb' = inb]_vars

C18_Witness ==
    /\ pc = "done" /\ Len(out) = 3 /\ Len(inb) = 3
    /\ \A k \in 1..3 : out[k].tag = MsgTag(k)

\* C19: when the demasked t of round 2 is 0, round 2 has not failed: M2 is
\* emitted with plaintext 0 and the session has advanced to StepTwo.
C19_ZeroInverse ==
    (pc # "done" /\ Len(inb) >= 1 /\ DemaskedT = 0) =>
        /\ pc = "live" /\ failure = ""
        /\ Len(rounds) >= 2 /\ Len(out) >= 2
        /\ state.tag \in {"StepTwo", "StepThree", "Complete"}
        /\ IsCiphertext(enc_key, out[2].e_t_mod_pow)
        /\ Decrypt(dec_key, out[2].e_t_mod_pow) = 0

C19_Witness ==
    /\ pc = "live" /\ state.tag = "StepTwo" /\ DemaskedT = 0
    /\ Decrypt(dec_key, out[2].e_t_mod_pow) = 0

\* C20: the demasked values of rounds 2 and 3 are the residues in [0, P) of
\* the decrypted value minus the correction scalar, also for a scalar above
\* the decrypted value or not below P; the plaintexts of M2 and M3 are in
\* [0, P).  Each round is examined in the state it leaves.
C20_CanonicalResidues ==
    pc = "live" =>
        /\ state.tag = "StepTwo" =>
              LET s1 == inb[1]
                  a  == AMaskedModP(s1)
                  t  == TMaskedModP(s1)
              IN  /\ {a, t} \subseteq 0..(P - 1)
                  /\ (a - (Decrypt(dec_key, s1.e_a_masked) - s1.n_a_mod_p)) % P = 0
                  /\ (t - (Decrypt(dec_key, s1.e_t_masked) - s1.n_t_mod_p)) % P = 0
                  /\ Decrypt(dec_key, out[2].e_t_mod_pow) \in 0..(P - 1)
                  /\ state.a_masked_mod_p = a
        /\ state.tag = "StepThree" =>
              LET s2 == inb[2]
                  b  == BMaskedModP(s2)
              IN  /\ b \in 0..(P - 1)
                  /\ (b - (Decrypt(dec_key, s2.e_b_masked) - s2.n_b_mod_p)) % P = 0
                  /\ Decrypt(dec_key, out[3].e_ab_masked) \in 0..(P - 1)

\* Both correction scalars exceed the decrypted value and are not below P.
C20_Witness ==
    /\ pc = "live" /\ state.tag = "StepThree"
    /\ inb[1].n_a_mod_p >= P /\ inb[1].n_a_mod_p > Decrypt(dec_key, inb[1].e_a_masked)
    /\ inb[2].n_b_mod_p >= P /\ inb[2].n_b_mod_p > Decrypt(dec_key, inb[2].e_b_masked)
    /\ DemaskedA \in 1..(P - 1) /\ DemaskedB \in 1..(P - 1)

----------------------------------------------------------------------------
\* What a session holds and has emitted is determined by its own point, its
\* own keys and the messages it consumed itself.
OwnData(ses) ==
    ses.pc = "live" =>
        /\ \E kp \in KeyPairs : ses.enc_key = Keys(kp).ek /\ ses.dec_key = Keys(kp).dk
        /\ Len(ses.out) >= 1 =>
              /\ ses.out[1].enc_key = ses.enc_key
              /\ Decrypt(ses.dec_key, ses.out[1].e_x_q) = CoordValue(ses.point.x[1])
              /\ Decrypt(ses.dec_key, ses.out[1].e_y_q_pow_2)
                    = (CoordValue(ses.point.y[1]) * CoordValue(ses.point.y[1])) % P
        /\ Len(ses.out) >= 2 =>
              LET a == (Decrypt(ses.dec_key, ses.inb[1].e_a_masked) - ses.inb[1].n_a_mod_p) % P
                  t == (Decrypt(ses.dec_key, ses.inb[1].e_t_masked) - ses.inb[1].n_t_mod_p) % P
              IN  /\ Decrypt(ses.dec_key, ses.out[2].e_t_mod_pow) = (t ^ (P - 3)) % P
                  /\ ses.state.tag = "StepTwo" => ses.state.a_masked_mod_p = a
                  /\ Len(ses.out) >= 3 =>
                        LET b == (Decrypt(ses.dec_key, ses.inb[2].e_b_masked)
                                    - ses.inb[2].n_b_mod_p) % P
                        IN  Decrypt(ses.dec_key, ses.out[3].e_ab_masked) = (b * a) % P
        /\ ses.state.tag = "Complete" =>
              ses.state.secret = Decrypt(ses.dec_key, ses.inb[3].e_pms_masked) % P

\* C16: with two sessions advanced in any interleaving, a step of one session
\* leaves the other session as it was, turning to the other session changes
\* neither, and each session's messages, a_masked_mod_p and secret are those
\* its own point, keys and inbound messages determine.
C16_Isolation ==
    /\ [](OwnData(Session) /\ OwnData(other))
    /\ [][IF focus' # focus
          THEN other' = Session /\ Session' = other
          ELSE other' = other]_vars

\* Both sessions are under way, in different rounds and with different keys.
C16_Witness ==
    /\ pc = "live" /\ other.pc = "live"
    /\ state.tag = "StepThree" /\ other.state.tag = "StepTwo"
    /\ enc_key # other.enc_key
    /\ point # other.point
====
